---------------------------- MODULE Spec2Model ----------------------------
(***************************************************************************)
(* Model of Fingerprint.py: Wi-Fi probe-request fingerprinting and the     *)
(* heuristic association of randomized source addresses with a persistent  *)
(* address.                                                                *)
(*                                                                         *)
(* Text (a str) is a sequence of one-character strings, a bytes object a   *)
(* sequence of integers 0..255, an information element the pair            *)
(* <<id, info>>.                                                           *)
(***************************************************************************)
EXTENDS Integers, Sequences, FiniteSets

VARIABLES
    pc,          \* position of the script: "header", "rows", "ingest", "done", "ValueError", "hash"
    nlines,      \* lines of CSV_FILE read so far
    real_macs,   \* the set built by the roster scan
    pkts,        \* the packets of rdpcap(PCAP_FILE) the loop has consumed, in order
    fmap,        \* fingerprint -> entry (the defaultdict)
    assign,      \* fingerprint -> [real, randoms]
    best,        \* fingerprint -> the loop's final (real, score)
    arg_ies,     \* hash_ies under test: its first argument
    arg_ids,     \* hash_ies under test: its second argument
    ret,         \* hash_ies under test: the value the last call returned
    prev,        \* hash_ies under test: the value the call before it returned
    op           \* hash_ies under test: what was done to the input before the last call

vars == <<pc, nlines, real_macs, pkts, fmap, assign, best, arg_ies, arg_ids, ret, prev, op>>

pipeline_vars == <<pc, nlines, real_macs, pkts, fmap, assign, best>>

harness_vars == <<arg_ies, arg_ids, ret, prev, op>>

(***************************************************************************)
(* Bounds                                                                  *)
(***************************************************************************)
MaxIes == 2          \* elements in a sequence handed to hash_ies under test

MaxPlainLen == 1     \* payload bytes of an id-1 / id-45 element under test

MaxVendorTail == 1   \* payload bytes of an id-221 element under test past its first 4

MaxLines == 3        \* lines read from CSV_FILE

MaxPkts == 3         \* packets read from PCAP_FILE

MaxScorePkts == 2    \* packets read from PCAP_FILE when the score is under study

MaxOrderPkts == 3    \* packets read from PCAP_FILE when the read order is under study

(***************************************************************************)
(* Generic helpers                                                         *)
(***************************************************************************)
\* an optional value (None, or an attribute the object lacks): the empty tuple
\* when absent, the value in a 1-tuple when present
None == <<>>

NoAttr == <<>>

Some(x) == <<x>>

EmptyMap == [k \in {} |-> None]

SeqsUpTo(S, n) == UNION {[1..k -> S] : k \in 0..n}

Take(s, n) == SubSeq(s, 1, IF Len(s) < n THEN Len(s) ELSE n)

Min(a, b) == IF a < b THEN a ELSE b

\* every arrangement of the members of S as a sequence
Orders(S) == {s \in [1..Cardinality(S) -> S] : \A x \in S : \E i \in DOMAIN s : s[i] = x}

\* every rearrangement of the sequence s
Rearrangements(s) ==
    {[i \in DOMAIN s |-> s[p[i]]] : p \in Orders(DOMAIN s)}

(***************************************************************************)
(* str methods used by the script                                          *)
(***************************************************************************)
LowerCase ==
    <<"a", "b", "c", "d", "e", "f", "g", "h", "i", "j", "k", "l", "m",
      "n", "o", "p", "q", "r", "s", "t", "u", "v", "w", "x", "y", "z">>

UpperCase ==
    <<"A", "B", "C", "D", "E", "F", "G", "H", "I", "J", "K", "L", "M",
      "N", "O", "P", "Q", "R", "S", "T", "U", "V", "W", "X", "Y", "Z">>

HexDigits ==
    <<"0", "1", "2", "3", "4", "5", "6", "7", "8", "9", "A", "B", "C", "D", "E", "F">>

Whitespace == {" ", "\n", "\r", "\t"}

IndexIn(table, c) ==
    IF \E i \in DOMAIN table : table[i] = c
    THEN CHOOSE i \in DOMAIN table : table[i] = c
    ELSE 0

\* str.upper()
ToUpper ==
    [c \in {LowerCase[i] : i \in DOMAIN LowerCase} |-> UpperCase[IndexIn(LowerCase, c)]]

upper(s) ==
    [i \in DOMAIN s |-> IF s[i] \in DOMAIN ToUpper THEN ToUpper[s[i]] ELSE s[i]]

\* str.strip()
RECURSIVE lstrip(_)
lstrip(s) ==
    IF s # <<>> /\ Head(s) \in Whitespace THEN lstrip(Tail(s)) ELSE s

RECURSIVE rstrip(_)
rstrip(s) ==
    IF s # <<>> /\ s[Len(s)] \in Whitespace THEN rstrip(SubSeq(s, 1, Len(s) - 1)) ELSE s

strip(s) == rstrip(lstrip(s))

\* str.split(sep) for a one-character separator
RECURSIVE split(_, _)
split(s, sep) ==
    IF \E i \in DOMAIN s : s[i] = sep
    THEN LET i == CHOOSE k \in DOMAIN s : s[k] = sep /\ \A j \in 1..(k - 1) : s[j] # sep
         IN  <<SubSeq(s, 1, i - 1)>> \o split(SubSeq(s, i + 1, Len(s)), sep)
    ELSE <<s>>

\* str.startswith(prefix)
startswith(s, prefix) ==
    Len(s) >= Len(prefix) /\ SubSeq(s, 1, Len(prefix)) = prefix

\* int(s, 16) on upper-cased text without sign, blank, "_" or "0X" prefix: the
\* value of the hex digits; it raises ValueError (ok is FALSE) when s is empty
\* or holds another character
RECURSIVE HexValue(_, _)
HexValue(s, acc) ==
    IF s = <<>> THEN acc
    ELSE HexValue(Tail(s), acc * 16 + (IndexIn(HexDigits, Head(s)) - 1))

int16(s) ==
    IF s = <<>> \/ \E i \in DOMAIN s : IndexIn(HexDigits, s[i]) = 0
    THEN [ok |-> FALSE, value |-> 0]
    ELSE [ok |-> TRUE, value |-> HexValue(s, 0)]

\* fb & 0x02
LocalBit(fb) == (fb \div 2) % 2

(***************************************************************************)
(* Addresses and roster lines the model draws from                         *)
(***************************************************************************)
MacG1 ==
    <<"0", "0", ":", "1", "1", ":", "2", "2", ":", "3", "3", ":", "4", "4", ":", "5", "5">>

MacG2 ==
    <<"A", "C", ":", "D", "E", ":", "4", "8", ":", "0", "0", ":", "1", "1", ":", "2", "2">>

MacG2lower ==
    <<"a", "c", ":", "d", "e", ":", "4", "8", ":", "0", "0", ":", "1", "1", ":", "2", "2">>

MacL1 ==
    <<"0", "2", ":", "0", "0", ":", "0", "0", ":", "0", "0", ":", "0", "0", ":", "0", "1">>

MacNineGroups ==
    <<"0", ":", "1", ":", "2", ":", "3", ":", "4", ":", "5", ":", "6", ":", "7", ":", "8">>

\* a line of the access-point table, before the station header
LinePreamble ==
    <<"B", "S", "S", "I", "D", ",", " ", "P", "W", "R", "\n">>

\* the station table's header
LineHeader ==
    <<"S", "t", "a", "t", "i", "o", "n", " ", "M", "A", "C", ",", " ", "P", "W", "R", "\n">>

\* a station row, globally administered
LineG1 ==
    <<"0", "0", ":", "1", "1", ":", "2", "2", ":", "3", "3", ":", "4", "4", ":", "5", "5", ",", " ", "-", "4", "0", "\n">>

\* a station row, globally administered
LineG2 ==
    <<"A", "C", ":", "D", "E", ":", "4", "8", ":", "0", "0", ":", "1", "1", ":", "2", "2", ",", " ", "-", "4", "0", "\n">>

\* a station row, locally administered
LineL1 ==
    <<"0", "2", ":", "0", "0", ":", "0", "0", ":", "0", "0", ":", "0", "0", ":", "0", "1", ",", " ", "-", "4", "0", "\n">>

\* a blank line
LineBlank ==
    <<"\n">>

\* a row whose first field has 16 characters
LineShort ==
    <<"(", "n", "o", "t", " ", "a", "s", "s", "o", "c", "i", "a", "t", "e", "d", ")", ",", " ", "-", "4", "0", "\n">>

\* a row whose first field has 17 characters and is no address
LineNotHex ==
    <<"N", "O", "T", "-", "A", "N", "-", "A", "D", "D", "R", "E", "S", "S", "-", "1", "7", ",", " ", "-", "4", "0", "\n">>

\* a row whose first field has 17 characters, in 9 one-digit groups
LineNineGroups ==
    <<"0", ":", "1", ":", "2", ":", "3", ":", "4", ":", "5", ":", "6", ":", "7", ":", "8", ",", " ", "-", "4", "0", "\n">>

StationHeader ==
    <<"S", "t", "a", "t", "i", "o", "n", " ", "M", "A", "C">>

Lines ==
    {LinePreamble, LineHeader, LineG1, LineG2, LineL1, LineBlank, LineShort,
     LineNotHex, LineNineGroups}

(***************************************************************************)
(* hash_ies                                                                *)
(***************************************************************************)
STABLE_IDS == {45, 127, 221}

RATE_IDS == {1, 50}

VendorId == 221

VendorPrefixLen == 4

\* bytes.__lt__: lexicographic order, a proper prefix is smaller
RECURSIVE BytesLess(_, _)
BytesLess(x, y) ==
    IF y = <<>> THEN FALSE
    ELSE IF x = <<>> THEN TRUE
    ELSE IF Head(x) # Head(y) THEN Head(x) < Head(y)
    ELSE BytesLess(Tail(x), Tail(y))

\* tuple.__lt__ on (id, info): the id decides, then the payload
TupleLessIdOnly(a, b) == a[1] < b[1]

TupleLess(a, b) ==
    \/ a[1] < b[1]
    \/ a[1] = b[1] /\ BytesLess(a[2], b[2])

\* x goes before the first element that is greater than it (a stable insertion)
RECURSIVE Insert(_, _)
Insert(s, x) ==
    IF s = <<>> THEN <<x>>
    ELSE IF TupleLess(x, Head(s)) THEN <<x>> \o s
    ELSE <<Head(s)>> \o Insert(Tail(s), x)

\* sorted(ies)
RECURSIVE sortedUpTo(_, _)
sortedUpTo(ies, n) ==
    IF n = 0 THEN <<>> ELSE Insert(sortedUpTo(ies, n - 1), ies[n])

unsorted(ies) == ies

sorted(ies) == sortedUpTo(ies, Len(ies))

\* what one element appends to raw
ContributionUntruncated(e) == <<e[1]>> \o e[2]

Contribution(e) ==
    IF e[1] = VendorId
    THEN <<e[1]>> \o Take(e[2], VendorPrefixLen)
    ELSE <<e[1]>> \o e[2]

\* the loop over the sorted elements, building raw
RECURSIVE RawOf(_, _)
RawOf(s, ids) ==
    IF s = <<>> THEN <<>>
    ELSE IF Head(s)[1] \notin ids THEN RawOf(Tail(s), ids)
    ELSE Contribution(Head(s)) \o RawOf(Tail(s), ids)

\* hashlib.sha256(raw).hexdigest(), as a collision-free digest: two digests are
\* equal exactly when the hashed byte streams are equal
sha256_hexdigest(raw) == [alg |-> "sha256", of |-> raw]

hash_ies(ies, ids) == sha256_hexdigest(RawOf(sorted(ies), ids))

(***************************************************************************)
(* hash_ies under test: the input is drawn from bounded sets and hashed,   *)
(* then rearranged or edited in one place and hashed again                 *)
(***************************************************************************)
Bytes == {0, 1}

PlainPayloads == SeqsUpTo(Bytes, MaxPlainLen)

\* id-221 payloads: the OUI 00:00:00 cut anywhere, or the OUI, a subtype byte
\* and a tail
TestOUI == <<0, 0, 0>>

VendorPayloads ==
    {Take(TestOUI, n) : n \in 0..Len(TestOUI)}
    \cup {TestOUI \o <<subtype>> \o tail :
            subtype \in Bytes, tail \in SeqsUpTo(Bytes, MaxVendorTail)}

PayloadsOf(id) == IF id = VendorId THEN VendorPayloads ELSE PlainPayloads

TestIds == {1, 45, 221}

TestElements == {<<id, info>> : id \in TestIds \ {VendorId}, info \in PlainPayloads}
                \cup {<<VendorId, info>> : info \in VendorPayloads}

NoDigest == [alg |-> "none", of |-> <<>>]

InitHash ==
    /\ pc = "hash"
    /\ nlines = 0
    /\ real_macs = {}
    /\ pkts = <<>>
    /\ fmap = EmptyMap
    /\ assign = EmptyMap
    /\ best = EmptyMap
    /\ arg_ies \in SeqsUpTo(TestElements, MaxIes)
    /\ arg_ids \in {STABLE_IDS, RATE_IDS}
    /\ ret = NoDigest
    /\ prev = NoDigest
    /\ op = "none"

\* the call with the new first argument
Recall(ies, what) ==
    /\ arg_ies' = ies
    /\ ret' = hash_ies(ies, arg_ids)
    /\ prev' = ret
    /\ op' = what
    /\ UNCHANGED <<arg_ids, pipeline_vars>>

Call ==
    /\ pc = "hash"
    /\ ret = NoDigest
    /\ Recall(arg_ies, "Call")

\* the same elements arrive in another order
Permute ==
    /\ pc = "hash"
    /\ op = "Call"
    /\ \E p \in Rearrangements(arg_ies) \ {arg_ies} : Recall(p, "Permute")

\* an element outside the id set gets another payload
EditUnselected ==
    /\ pc = "hash"
    /\ op = "Call"
    /\ \E i \in DOMAIN arg_ies :
          /\ arg_ies[i][1] \notin arg_ids
          /\ \E info \in PayloadsOf(arg_ies[i][1]) \ {arg_ies[i][2]} :
                Recall([arg_ies EXCEPT ![i] = <<arg_ies[i][1], info>>], "EditUnselected")

\* an element outside the id set is added
AddUnselected ==
    /\ pc = "hash"
    /\ op = "Call"
    /\ Len(arg_ies) < MaxIes
    /\ \E e \in TestElements, i \in 0..Len(arg_ies) :
          /\ e[1] \notin arg_ids
          /\ Recall(SubSeq(arg_ies, 1, i) \o <<e>> \o SubSeq(arg_ies, i + 1, Len(arg_ies)),
                    "AddUnselected")

\* an element outside the id set is removed
RemoveUnselected ==
    /\ pc = "hash"
    /\ op = "Call"
    /\ \E i \in DOMAIN arg_ies :
          /\ arg_ies[i][1] \notin arg_ids
          /\ Recall(SubSeq(arg_ies, 1, i - 1) \o SubSeq(arg_ies, i + 1, Len(arg_ies)),
                    "RemoveUnselected")

\* a selected id-221 payload changes past its first 4 bytes
EditVendorTail ==
    /\ pc = "hash"
    /\ op = "Call"
    /\ \E i \in DOMAIN arg_ies :
          /\ arg_ies[i][1] = VendorId
          /\ VendorId \in arg_ids
          /\ \E info \in VendorPayloads \ {arg_ies[i][2]} :
                /\ Take(info, VendorPrefixLen) = Take(arg_ies[i][2], VendorPrefixLen)
                /\ Recall([arg_ies EXCEPT ![i] = <<VendorId, info>>], "EditVendorTail")

\* a selected element changes in a byte that is hashed
EditSelected ==
    /\ pc = "hash"
    /\ op = "Call"
    /\ \E i \in DOMAIN arg_ies :
          /\ arg_ies[i][1] \in arg_ids
          /\ \E info \in PayloadsOf(arg_ies[i][1]) :
                /\ Contribution(<<arg_ies[i][1], info>>) # Contribution(arg_ies[i])
                /\ Recall([arg_ies EXCEPT ![i] = <<arg_ies[i][1], info>>], "EditSelected")

NextHash ==
    \/ Call
    \/ Permute
    \/ EditUnselected
    \/ AddUnselected
    \/ RemoveUnselected
    \/ EditVendorTail
    \/ EditSelected

SpecHash == InitHash /\ [][NextHash]_vars

(***************************************************************************)
(* Claims about hash_ies                                                   *)
(***************************************************************************)
Selected(ies, ids) == {i \in DOMAIN ies : ies[i][1] \in ids}

\* C5: the digest is the same for every arrival order of the same elements:
\* after the input is rearranged, the call returns what it returned before.
C5_OrderIndependent == op = "Permute" => ret = prev

\* C5 witness: two elements sharing a selected id but differing in payload were
\* rearranged and hashed again.
C5_Witness ==
    /\ op = "Permute"
    /\ \E i, j \in Selected(arg_ies, arg_ids) :
          /\ i < j
          /\ arg_ies[i][1] = arg_ies[j][1]
          /\ arg_ies[i][2] # arg_ies[j][2]

\* C6: the digest depends only on the elements whose id is in the id set, an
\* id-221 element counting with its first 4 payload bytes only: editing, adding
\* or removing an element outside the id set, or editing an id-221 payload past
\* its 4th byte, leaves the digest as it was; an id-221 payload shorter than 4
\* bytes is hashed whole.
C6_InputSelection ==
    /\ op \in {"EditUnselected", "AddUnselected", "RemoveUnselected", "EditVendorTail"}
          => ret = prev
    /\ \A info \in VendorPayloads :
          (/\ ret # NoDigest
           /\ arg_ies = <<(<<VendorId, info>>)>>
           /\ VendorId \in arg_ids
           /\ Len(info) < VendorPrefixLen)
             => ret = sha256_hexdigest(<<VendorId>> \o info)

\* C6 witness: a selected id-221 payload of more than 4 bytes was changed in its
\* 5th byte and hashed again.
C6_Witness ==
    /\ op = "EditVendorTail"
    /\ \E i \in Selected(arg_ies, arg_ids) :
          /\ arg_ies[i][1] = VendorId
          /\ Len(arg_ies[i][2]) > VendorPrefixLen

\* the arrangements of the selected elements of ies in which Before(a, b) never
\* fails for an element a placed before an element b
Arranged(ies, ids, Before(_, _, _, _)) ==
    {p \in Orders(Selected(ies, ids)) :
        \A m, n \in DOMAIN p : m < n => Before(ies[p[m]], p[m], ies[p[n]], p[n])}

RECURSIVE StreamOf(_, _)
StreamOf(ies, p) ==
    IF p = <<>> THEN <<>>
    ELSE Contribution(ies[Head(p)]) \o StreamOf(ies, Tail(p))

\* by id ascending, elements sharing an id in their input order
ByIdThenInputOrder(a, i, b, j) == a[1] < b[1] \/ (a[1] = b[1] /\ i < j)

\* by id ascending, elements sharing an id by payload ascending
ByIdThenPayload(a, i, b, j) ==
    a[1] < b[1] \/ (a[1] = b[1] /\ (a[2] = b[2] \/ BytesLess(a[2], b[2])))

\* C10 as stated: the hashed stream takes the selected elements by id ascending
\* and, within one id, in their input order.
C10_StableById ==
    ret # NoDigest =>
        \E p \in Arranged(arg_ies, arg_ids, ByIdThenInputOrder) :
            ret = sha256_hexdigest(StreamOf(arg_ies, p))

\* C10 amended: the hashed stream takes the selected elements by id ascending
\* and, within one id, by payload ascending (bytewise), whatever the input order.
C10_SortedByIdThenPayload ==
    ret # NoDigest =>
        \E p \in Arranged(arg_ies, arg_ids, ByIdThenPayload) :
            ret = sha256_hexdigest(StreamOf(arg_ies, p))

\* C10 witness: two selected elements share an id and arrive with the greater
\* payload first.
C10_Witness ==
    /\ ret # NoDigest
    /\ \E i, j \in Selected(arg_ies, arg_ids) :
          /\ i < j
          /\ arg_ies[i][1] = arg_ies[j][1]
          /\ BytesLess(arg_ies[j][2], arg_ies[i][2])

(***************************************************************************)
(* The roster scan (real_macs)                                             *)
(***************************************************************************)
MacTextLen == 17

\* lines 60-67 for one line below the header: the new real_macs, and whether
\* int() raised
ScanRow(rm, line) ==
    LET parts == split(line, ",")
        cols == [i \in DOMAIN parts |-> strip(parts[i])]
    IN  IF Len(cols) < 1 \/ Len(cols[1]) # MacTextLen
        THEN [raised |-> FALSE, real_macs |-> rm]
        ELSE LET mac == upper(cols[1])
                 fb == int16(split(mac, ":")[1])
             IN  IF ~fb.ok THEN [raised |-> TRUE, real_macs |-> rm]
                 ELSE IF LocalBit(fb.value) = 0
                      THEN [raised |-> FALSE, real_macs |-> rm \cup {mac}]
                 ELSE [raised |-> FALSE, real_macs |-> rm]

\* lines 56-58: lines are dropped up to and including the station header
ReadHeaderLine ==
    /\ pc = "header"
    /\ nlines < MaxLines
    /\ \E line \in Lines :
          pc' = IF startswith(line, StationHeader) THEN "rows" ELSE "header"
    /\ nlines' = nlines + 1
    /\ UNCHANGED <<real_macs, pkts, fmap, assign, best, harness_vars>>

\* lines 59-67: one row of the station table
ReadRow ==
    /\ pc = "rows"
    /\ nlines < MaxLines
    /\ \E line \in Lines :
          IF ScanRow(real_macs, line).raised
          THEN /\ pc' = "ValueError"
               /\ nlines' = 0
               /\ UNCHANGED real_macs
          ELSE /\ real_macs' = ScanRow(real_macs, line).real_macs
               /\ nlines' = nlines + 1
               /\ UNCHANGED pc
    /\ UNCHANGED <<pkts, fmap, assign, best, harness_vars>>

\* the file ends (in either loop) and is closed
CloseRoster ==
    /\ pc \in {"header", "rows"}
    /\ pc' = "ingest"
    /\ nlines' = 0
    /\ UNCHANGED <<real_macs, pkts, fmap, assign, best, harness_vars>>

(***************************************************************************)
(* The ingestion loop (fmap)                                               *)
(***************************************************************************)
SsidId == 0

\* bytes.decode("utf-8", errors="ignore") for payloads of 1- and 2-byte
\* sequences, the text given by its code points: a byte that starts no valid
\* sequence is dropped and decoding goes on with the next byte
IsAscii(b) == b < 128

IsLead2(b) == 194 <= b /\ b <= 223

IsContinuation(b) == 128 <= b /\ b <= 191

\* bytes.decode("utf-8"), the strict handler: any invalid byte raises, and the
\* except clause leaves None
RECURSIVE utf8_decode_strict(_)
utf8_decode_strict(info) ==
    IF info = <<>> THEN Some(<<>>)
    ELSE IF IsAscii(Head(info))
         THEN LET rest == utf8_decode_strict(Tail(info))
              IN  IF rest = None THEN None ELSE Some(<<Head(info)>> \o rest[1])
    ELSE IF IsLead2(Head(info)) /\ Len(info) >= 2 /\ IsContinuation(info[2])
         THEN LET rest == utf8_decode_strict(Tail(Tail(info)))
              IN  IF rest = None THEN None
                  ELSE Some(<<(Head(info) - 192) * 64 + (info[2] - 128)>> \o rest[1])
    ELSE None

RECURSIVE DecodeIgnoring(_)
DecodeIgnoring(info) ==
    IF info = <<>> THEN <<>>
    ELSE IF IsAscii(Head(info)) THEN <<Head(info)>> \o DecodeIgnoring(Tail(info))
    ELSE IF IsLead2(Head(info)) /\ Len(info) >= 2 /\ IsContinuation(info[2])
         THEN <<(Head(info) - 192) * 64 + (info[2] - 128)>>
              \o DecodeIgnoring(Tail(Tail(info)))
    ELSE DecodeIgnoring(Tail(info))

\* lines 101-104: errors="ignore" never raises, so the except clause is never taken
utf8_decode_ignore(info) == Some(DecodeIgnoring(info))

\* lines 89-110: the walk over the Dot11Elt layers; ies is the list of
\* (ID, info) pairs, ssid_tmp the decoded payload of the last id-0 element
\* that has one
RECURSIVE ssid_tmp_of(_, _)
ssid_tmp_of(elts, acc) ==
    IF elts = <<>> THEN acc
    ELSE IF Head(elts)[1] = SsidId /\ Head(elts)[2] # <<>>
         THEN ssid_tmp_of(Tail(elts), utf8_decode_ignore(Head(elts)[2]))
    ELSE ssid_tmp_of(Tail(elts), acc)

\* line 70: the default entry
NewEntry ==
    [ies |-> <<>>, rate_hashes |-> {}, times |-> <<>>, powers |-> <<>>,
     channels |-> <<>>, ssids |-> {}, reals |-> {}, randoms |-> {}]

EntryOf(fm, fp) == IF fp \in DOMAIN fm THEN fm[fp] ELSE NewEntry

\* lines 120-121 without the test: the latest frame's elements are stored
StoreIesLatest(entry, ies) == [entry EXCEPT !.ies = ies]

\* lines 120-121
StoreIes(entry, ies) ==
    IF entry.ies = <<>> THEN [entry EXCEPT !.ies = ies] ELSE entry

\* line 124
ReplaceRateHash(entry, fp_rate) == [entry EXCEPT !.rate_hashes = {fp_rate}]

AddRateHash(entry, fp_rate) == [entry EXCEPT !.rate_hashes = @ \cup {fp_rate}]

\* lines 127-131
AddSamples(entry, pkt) ==
    [entry EXCEPT
        !.times = Append(@, pkt.time),
        !.powers = IF pkt.dBm_AntSignal = NoAttr THEN @ ELSE Append(@, pkt.dBm_AntSignal[1]),
        !.channels = IF pkt.Channel = NoAttr THEN @ ELSE Append(@, pkt.Channel[1])]

\* lines 133-134
AddSsid(entry, ssid_tmp) ==
    IF ssid_tmp # None /\ ssid_tmp[1] # <<>>
    THEN [entry EXCEPT !.ssids = @ \cup {ssid_tmp[1]}]
    ELSE entry

\* lines 136-139
AddMacToBoth(entry, mac, rm) ==
    IF mac \in rm
    THEN [entry EXCEPT !.reals = @ \cup {mac}, !.randoms = @ \cup {mac}]
    ELSE [entry EXCEPT !.randoms = @ \cup {mac}]

AddMac(entry, mac, rm) ==
    IF mac \in rm
    THEN [entry EXCEPT !.reals = @ \cup {mac}]
    ELSE [entry EXCEPT !.randoms = @ \cup {mac}]

\* line 85
MacOf(pkt) == IF pkt.addr2 = None THEN <<>> ELSE upper(pkt.addr2[1])

\* lines 82-113: is the packet one the loop goes on with
Ingested(pkt) == pkt.probe /\ MacOf(pkt) # <<>> /\ pkt.elts # <<>>

\* lines 82-139 for one packet: the new fmap
IngestPkt(fm, rm, pkt) ==
    IF ~Ingested(pkt) THEN fm
    ELSE LET mac == MacOf(pkt)
             ies == pkt.elts
             ssid_tmp == ssid_tmp_of(pkt.elts, None)
             fp_stable == hash_ies(ies, STABLE_IDS)
             fp_rate == hash_ies(ies, RATE_IDS)
             entry == AddMac(AddSsid(AddSamples(AddRateHash(
                          StoreIes(EntryOf(fm, fp_stable), ies), fp_rate), pkt),
                          ssid_tmp), mac, rm)
         IN  [fp \in DOMAIN fm \cup {fp_stable} |->
                 IF fp = fp_stable THEN entry ELSE fm[fp]]

\* one turn of the loop of line 81, the packet drawn from U, at most max of them
Ingest(U, max) ==
    /\ pc = "ingest"
    /\ Len(pkts) < max
    /\ \E pkt \in U :
          /\ pkts' = Append(pkts, pkt)
          /\ fmap' = IngestPkt(fmap, real_macs, pkt)
    /\ UNCHANGED <<pc, nlines, real_macs, assign, best, harness_vars>>

(***************************************************************************)
(* The heuristic assignment                                                *)
(***************************************************************************)
RECURSIVE max(_)
max(s) ==
    IF Len(s) = 1 THEN s[1]
    ELSE LET m == max(Tail(s)) IN IF Head(s) > m THEN Head(s) ELSE m

RECURSIVE min(_)
min(s) ==
    IF Len(s) = 1 THEN s[1]
    ELSE LET m == min(Tail(s)) IN IF Head(s) < m THEN Head(s) ELSE m

abs(x) == IF x < 0 THEN -x ELSE x

\* set(data['channels'])
set(s) == {s[i] : i \in DOMAIN s}

\* lines 148-179 with the channel test on the list instead of the set
ScoreChannelList(data) ==
    (IF data.times # <<>>
     THEN LET dt == abs(max(data.times) - min(data.times))
          IN  IF dt < 60 THEN 5 ELSE IF dt < 300 THEN 2 ELSE 0
     ELSE 0)
    + (IF data.powers # <<>>
       THEN LET diff == abs(max(data.powers) - min(data.powers))
            IN  IF diff < 5 THEN 3 ELSE IF diff < 15 THEN 1 ELSE 0
       ELSE 0)
    + (IF data.channels # <<>> /\ Len(data.channels) = 1 THEN 2 ELSE 0)
    + (IF data.ssids # {} THEN 10 ELSE 0)
    + 3
    + (IF Cardinality(data.rate_hashes) = 1 THEN 2 ELSE 0)

\* lines 148-179: the score of a pair, computed from the group's data alone
Score(data) ==
    (IF data.times # <<>>
     THEN LET dt == abs(max(data.times) - min(data.times))
          IN  IF dt < 60 THEN 5 ELSE IF dt < 300 THEN 2 ELSE 0
     ELSE 0)
    + (IF data.powers # <<>>
       THEN LET diff == abs(max(data.powers) - min(data.powers))
            IN  IF diff < 5 THEN 3 ELSE IF diff < 15 THEN 1 ELSE 0
       ELSE 0)
    + (IF data.channels # <<>> /\ Cardinality(set(data.channels)) = 1 THEN 2 ELSE 0)
    + (IF data.ssids # {} THEN 10 ELSE 0)
    + 3
    + (IF Cardinality(data.rate_hashes) = 1 THEN 2 ELSE 0)

\* lines 146-147: the pairs in the order the two nested loops visit them
PairsOf(rands, reals) ==
    [k \in 1..(Len(rands) * Len(reals)) |->
        <<rands[((k - 1) \div Len(reals)) + 1], reals[((k - 1) % Len(reals)) + 1]>>]

\* lines 145-182 with >= on line 181: a pair with the same score replaces best
RECURSIVE BestOverTies(_, _, _)
BestOverTies(pairs, data, b) ==
    IF pairs = <<>> THEN b
    ELSE LET score == Score(data)
         IN  BestOverTies(Tail(pairs), data,
                          IF score >= b[2] THEN <<Some(Head(pairs)[2]), score>> ELSE b)

\* lines 145-182: best after the pairs have been visited
RECURSIVE BestOver(_, _, _)
BestOver(pairs, data, b) ==
    IF pairs = <<>> THEN b
    ELSE LET score == Score(data)
         IN  BestOver(Tail(pairs), data,
                      IF score > b[2] THEN <<Some(Head(pairs)[2]), score>> ELSE b)

\* line 184
EmitsAbove(b) == b[1] # None /\ b[1][1] # <<>> /\ b[2] > 5

Emits(b) == b[1] # None /\ b[1][1] # <<>> /\ b[2] >= 5

\* the orders in which the loops may iterate over a group's two sets: a set's
\* iteration order is fixed by neither its members nor the script
IterationOrders(fm) ==
    LET Of(fp) == Orders(fm[fp].randoms) \X Orders(fm[fp].reals)
    IN  {o \in [DOMAIN fm -> UNION {Of(fp) : fp \in DOMAIN fm}] :
            \A fp \in DOMAIN fm : o[fp] \in Of(fp)}

BestOf(fm, o) ==
    [fp \in DOMAIN fm |-> BestOver(PairsOf(o[fp][1], o[fp][2]), fm[fp], <<None, 0>>)]

\* assign[fp]; 'randoms', the sorted list of a set, is given by the set
AssignOf(fm, b) ==
    [fp \in DOMAIN fm |->
        [real |-> IF Emits(b[fp]) THEN b[fp][1][1] ELSE <<>>,
         randoms |-> fm[fp].randoms]]

\* lines 142-185, run when the capture is exhausted
HeuristicAssignment ==
    /\ pc = "ingest"
    /\ \E o \in IterationOrders(fmap) :
          /\ best' = BestOf(fmap, o)
          /\ assign' = AssignOf(fmap, best')
    /\ pc' = "done"
    /\ UNCHANGED <<nlines, real_macs, pkts, fmap, harness_vars>>

(***************************************************************************)
(* Packets the model draws from                                            *)
(***************************************************************************)
SsidAb == <<0, <<97, 98>>>>            \* "ab"

SsidPartly == <<0, <<255, 97>>>>       \* an invalid byte, then "a"

SsidLeadCut == <<0, <<98, 195>>>>      \* "b", then a lead byte with nothing after it

SsidInvalid == <<0, <<255>>>>          \* an invalid byte alone

SsidWildcard == <<0, <<>>>>            \* the empty SSID

Rates1 == <<1, <<2, 4>>>>

Rates2 == <<1, <<2>>>>

HtCaps == <<45, <<1>>>>

Vendor == <<221, <<0, 80, 242, 8, 0>>>>

EltsAb == <<SsidAb, Rates1, HtCaps>>

EltsPartly == <<SsidPartly, Rates2, HtCaps>>

EltsLeadCut == <<HtCaps, SsidLeadCut, Rates1>>

EltsInvalid == <<SsidInvalid, Rates1, Vendor>>

EltsWildcard == <<SsidWildcard, Rates1, HtCaps>>

EltsRates2 == <<SsidWildcard, Rates2, HtCaps>>

NotAProbe ==
    [probe |-> FALSE, addr2 |-> Some(MacL1), time |-> 0, dBm_AntSignal |-> NoAttr,
     Channel |-> NoAttr, elts |-> EltsAb]

Pkts ==
    [probe : {TRUE}, addr2 : {Some(MacG1), Some(MacL1)}, time : {0},
     dBm_AntSignal : {NoAttr}, Channel : {NoAttr},
     elts : {EltsAb, EltsPartly, EltsInvalid, <<>>}]
    \cup
    [probe : {TRUE}, addr2 : {Some(MacG2lower), None}, time : {0},
     dBm_AntSignal : {NoAttr}, Channel : {NoAttr}, elts : {EltsAb}]
    \cup {NotAProbe}

(***************************************************************************)
(* The script: roster scan, ingestion, assignment                          *)
(***************************************************************************)
HarnessIdle ==
    /\ arg_ies = <<>>
    /\ arg_ids = {}
    /\ ret = NoDigest
    /\ prev = NoDigest
    /\ op = "none"

Init ==
    /\ pc = "header"
    /\ nlines = 0
    /\ real_macs = {}
    /\ pkts = <<>>
    /\ fmap = EmptyMap
    /\ assign = EmptyMap
    /\ best = EmptyMap
    /\ HarnessIdle

IngestPkts == Ingest(Pkts, MaxPkts)

Next ==
    \/ ReadHeaderLine
    \/ ReadRow
    \/ CloseRoster
    \/ IngestPkts
    \/ HeuristicAssignment

Spec == Init /\ [][Next]_vars

(***************************************************************************)
(* Claims about the roster scan and the ingestion loop                     *)
(***************************************************************************)
\* the packets read so far that were added to the entry of fp
PktsOf(fp) ==
    {pkts[i] : i \in {k \in DOMAIN pkts :
                        Ingested(pkts[k]) /\ hash_ies(pkts[k].elts, STABLE_IDS) = fp}}

\* the source addresses observed for fp
Observed(fp) == {MacOf(p) : p \in PktsOf(fp)}

\* the first octet of the address has bit 0x02 set
LocallyAdministered(mac) ==
    (HexValue(SubSeq(mac, 1, 2), 0) \div 2) % 2 = 1

\* six groups of two hex digits with colons between them
WellFormedMac(mac) ==
    /\ Len(mac) = MacTextLen
    /\ \A i \in DOMAIN mac :
          IF i % 3 = 0 THEN mac[i] = ":" ELSE IndexIn(HexDigits, mac[i]) # 0

\* C1: at ingestion the bit test alone classifies a source address: it is in
\* the group's randomized set iff its first octet has bit 0x02 set and in the
\* persistent set otherwise, whatever the roster holds.
C1_BitTestAlone ==
    \A fp \in DOMAIN fmap : \A mac \in Observed(fp) :
        /\ mac \in fmap[fp].randoms <=> LocallyAdministered(mac)
        /\ mac \in fmap[fp].reals <=> ~LocallyAdministered(mac)

\* C2: for every group the persistent and the randomized set are disjoint and
\* together hold exactly the source addresses observed for the group.
C2_Partition ==
    \A fp \in DOMAIN fmap :
        /\ fmap[fp].reals \cap fmap[fp].randoms = {}
        /\ fmap[fp].reals \cup fmap[fp].randoms = Observed(fp)

\* C2 witness: a group that three packets reached, with an address in each set.
C2_Witness ==
    \E fp \in DOMAIN fmap :
        /\ Len(fmap[fp].times) = 3
        /\ fmap[fp].reals # {}
        /\ fmap[fp].randoms # {}

\* C7: the roster scan never fails: a malformed row, also one whose first
\* field merely has 17 characters, is skipped without an error.
C7_RosterNeverFails == pc # "ValueError"

\* C7, its second half: real_macs holds only well-formed addresses whose first
\* octet has bit 0x02 clear.
C7_OnlyWellFormed ==
    \A mac \in real_macs : WellFormedMac(mac) /\ ~LocallyAdministered(mac)

\* the payload of the packet's SSID element is not valid UTF-8
HasInvalidSsid(pkt) ==
    \E i \in DOMAIN pkt.elts :
        pkt.elts[i][1] = SsidId /\ utf8_decode_strict(pkt.elts[i][2]) = None

\* the loop reads pkt and adds it to an entry
Ingests(pkt) ==
    /\ pc = "ingest"
    /\ pkts' = Append(pkts, pkt)
    /\ Ingested(pkt)

SsidsBefore(pkt) == EntryOf(fmap, hash_ies(pkt.elts, STABLE_IDS)).ssids

SsidsAfter(pkt) == EntryOf(fmap', hash_ies(pkt.elts, STABLE_IDS)).ssids

\* C9 as stated: a packet whose SSID payload is not valid text adds nothing to
\* its group's SSID set.
C9_InvalidSsidAbsent ==
    [][\A pkt \in Pkts :
          (Ingests(pkt) /\ HasInvalidSsid(pkt)) => SsidsAfter(pkt) = SsidsBefore(pkt)]_vars

\* what is left of a payload of ASCII bytes and of bytes that start no valid
\* sequence, once the latter are dropped
KeptText(info) == SelectSeq(info, IsAscii)

\* C9 amended: a packet whose SSID payload is not valid text adds to its
\* group's SSID set the text left once the invalid bytes are dropped, and
\* nothing only when no byte is left; no error is raised.
C9_InvalidBytesDropped ==
    [][\A pkt \in Pkts :
          (Ingests(pkt) /\ HasInvalidSsid(pkt)) =>
              \E i \in DOMAIN pkt.elts :
                  /\ pkt.elts[i][1] = SsidId
                  /\ SsidsAfter(pkt) =
                        SsidsBefore(pkt) \cup ({KeptText(pkt.elts[i][2])} \ {<<>>})]_vars

\* C9 witness: a packet whose SSID payload is an invalid byte followed by "a"
\* was ingested and its group's SSID set holds "a".
C9_Witness ==
    \E i \in DOMAIN pkts :
        /\ Ingested(pkts[i])
        /\ pkts[i].elts = EltsPartly
        /\ <<97>> \in fmap[hash_ies(EltsPartly, STABLE_IDS)].ssids
        /\ \A k \in DOMAIN pkts : pkts[k].elts = EltsPartly

\* the stable fingerprint of a frame's elements
StableOf(pkt) == hash_ies(pkt.elts, STABLE_IDS)

\* the positions in ps of the ingested frames whose stable fingerprint is fp
FramesOf(ps, fp) == {k \in DOMAIN ps : Ingested(ps[k]) /\ StableOf(ps[k]) = fp}

\* the first ingested frame of ps whose stable fingerprint is fp
FirstFrame(ps, fp) ==
    ps[CHOOSE k \in FramesOf(ps, fp) : \A j \in FramesOf(ps, fp) : k <= j]

\* s is s2 or the front part of s2
IsPrefix(s, s2) == Len(s) <= Len(s2) /\ SubSeq(s2, 1, Len(s)) = s

\* every group of fm stores the elements of its first frame in ps, and the
\* groups are those of the ingested frames
StoresFirstFrame(fm, ps) ==
    /\ DOMAIN fm = {StableOf(ps[k]) : k \in {j \in DOMAIN ps : Ingested(ps[j])}}
    /\ \A fp \in DOMAIN fm : fm[fp].ies = FirstFrame(ps, fp).elts

\* a group of fm is still in fm2 with the same stored elements, and its lists
\* and sets have only grown
OnlyGrows(fm, fm2) ==
    \A fp \in DOMAIN fm :
        /\ fp \in DOMAIN fm2
        /\ fm2[fp].ies = fm[fp].ies
        /\ IsPrefix(fm[fp].times, fm2[fp].times)
        /\ IsPrefix(fm[fp].powers, fm2[fp].powers)
        /\ IsPrefix(fm[fp].channels, fm2[fp].channels)
        /\ fm[fp].rate_hashes \subseteq fm2[fp].rate_hashes
        /\ fm[fp].ssids \subseteq fm2[fp].ssids
        /\ fm[fp].reals \subseteq fm2[fp].reals
        /\ fm[fp].randoms \subseteq fm2[fp].randoms

\* C11: the stored element sequence is write-once. After every step each
\* group stores the elements of the first ingested frame with its stable
\* fingerprint; a step (the ingest of any frame, matching or not, skipped or
\* not, and the assignment) removes no group, leaves every stored sequence as
\* it was, and only lengthens the lists and enlarges the sets of a group.
C11_WriteOnce ==
    [][/\ StoresFirstFrame(fmap', pkts')
       /\ OnlyGrows(fmap, fmap')]_vars

\* two frames with different elements and the same stable fingerprint were
\* ingested, then a frame of another group; the group stores the first
\* frame's elements and holds two timestamps
C11_Witness ==
    /\ Len(pkts) = 3
    /\ \A k \in DOMAIN pkts : Ingested(pkts[k])
    /\ pkts[1].elts = EltsAb
    /\ pkts[2].elts = EltsPartly
    /\ pkts[3].elts = EltsInvalid
    /\ StableOf(pkts[1]) = StableOf(pkts[2])
    /\ StableOf(pkts[3]) # StableOf(pkts[1])
    /\ fmap[StableOf(pkts[1])].ies = EltsAb
    /\ Len(fmap[StableOf(pkts[1])].times) = 2
    /\ fmap[StableOf(pkts[3])].ies = EltsInvalid

(***************************************************************************)
(* The score and the threshold: the roster held 00:11:22:33:44:55; that    *)
(* station probes at time 0, the randomized one at any time, power and     *)
(* channel, so that the two together give every combination of the         *)
(* group-wide figures the score reads                                      *)
(***************************************************************************)
ScorePkts ==
    [probe : {TRUE}, addr2 : {Some(MacG1)}, time : {0},
     dBm_AntSignal : {NoAttr, Some(-50)}, Channel : {NoAttr, Some(1)},
     elts : {EltsAb, EltsWildcard}]
    \cup
    [probe : {TRUE}, addr2 : {Some(MacL1)}, time : {0, 60, 300},
     dBm_AntSignal : {NoAttr, Some(-50), Some(-45), Some(-35)},
     Channel : {NoAttr, Some(1), Some(6)},
     elts : {EltsWildcard, EltsRates2}]

InitScore ==
    /\ pc = "ingest"
    /\ nlines = 0
    /\ real_macs = {MacG1}
    /\ pkts = <<>>
    /\ fmap = EmptyMap
    /\ assign = EmptyMap
    /\ best = EmptyMap
    /\ HarnessIdle

IngestScorePkts == Ingest(ScorePkts, MaxScorePkts)

NextScore ==
    \/ IngestScorePkts
    \/ HeuristicAssignment

SpecScore == InitScore /\ [][NextScore]_vars

\* the loop of line 81 over a whole list of packets
RECURSIVE IngestAll(_, _, _)
IngestAll(fm, rm, list) ==
    IF list = <<>> THEN fm
    ELSE IngestAll(IngestPkt(fm, rm, Head(list)), rm, Tail(list))

(***************************************************************************)
(* Claims about the score and the assignment                               *)
(***************************************************************************)
\* max - min of the values of a list
Spread(s) ==
    (CHOOSE x \in set(s) : \A y \in set(s) : y <= x)
    - (CHOOSE x \in set(s) : \A y \in set(s) : x <= y)

TimeTerm(data) ==
    IF Spread(data.times) < 60 THEN 5 ELSE IF Spread(data.times) < 300 THEN 2 ELSE 0

PowerTerm(data) ==
    IF data.powers = <<>> THEN 0
    ELSE IF Spread(data.powers) < 5 THEN 3
    ELSE IF Spread(data.powers) < 15 THEN 1
    ELSE 0

ChannelTerm(data) ==
    IF \E c \in set(data.channels) : set(data.channels) = {c} THEN 2 ELSE 0

SsidTerm(data) == IF data.ssids = {} THEN 0 ELSE 10

RateTerm(data) ==
    IF \E h \in data.rate_hashes : data.rate_hashes = {h} THEN 2 ELSE 0

\* the score as the claims state it
StatedScore(data) ==
    TimeTerm(data) + PowerTerm(data) + ChannelTerm(data) + SsidTerm(data) + 3
    + RateTerm(data)

HasPair(data) == data.randoms # {} /\ data.reals # {}

\* C3: once ingestion has ended, a group is assigned a persistent address iff
\* it has a (randomized, persistent) pair and its score is >= 5: a score of 4
\* gives none, a score of 5 gives one; the address is in the group's
\* persistent set.
C3_AssignmentEmission ==
    pc = "done" =>
        \A fp \in DOMAIN fmap :
            /\ assign[fp].real # <<>>
                  <=> (HasPair(fmap[fp]) /\ StatedScore(fmap[fp]) >= 5)
            /\ (HasPair(fmap[fp]) /\ StatedScore(fmap[fp]) = 4) => assign[fp].real = <<>>
            /\ (HasPair(fmap[fp]) /\ StatedScore(fmap[fp]) = 5) => assign[fp].real # <<>>
            /\ assign[fp].real # <<>> => assign[fp].real \in fmap[fp].reals

\* C3 witness: a group with a pair and a score of exactly 5 has been assigned
\* its persistent address.
C3_Witness ==
    /\ pc = "done"
    /\ \E fp \in DOMAIN fmap :
          /\ HasPair(fmap[fp])
          /\ best[fp][2] = 5
          /\ assign[fp].real = MacG1

\* a group with a pair and a score of exactly 4 has been left unassigned
C3_ScoreFourReached ==
    /\ pc = "done"
    /\ \E fp \in DOMAIN fmap :
          /\ HasPair(fmap[fp])
          /\ best[fp][2] = 4
          /\ assign[fp].real = <<>>

\* the score the assignment loop ends with for the one group of a packet list
ScoreAfter(list) ==
    LET fm == IngestAll(EmptyMap, {MacG1}, list)
        o == CHOOSE x \in IterationOrders(fm) : TRUE
        fp == CHOOSE x \in DOMAIN fm : TRUE
    IN  BestOf(fm, o)[fp][2]

ScenarioPkt(mac, time, power, channel, elts) ==
    [probe |-> TRUE, addr2 |-> Some(mac), time |-> time, dBm_AntSignal |-> Some(power),
     Channel |-> Some(channel), elts |-> elts]

\* within 10 s, 2 dBm apart, one channel, an SSID, one rate hash
Scenario25 ==
    ScoreAfter(<<ScenarioPkt(MacG1, 0, -50, 1, EltsAb),
                 ScenarioPkt(MacL1, 10, -48, 1, EltsAb)>>)

\* the same without an SSID and with two rate hashes
Scenario13 ==
    ScoreAfter(<<ScenarioPkt(MacG1, 0, -50, 1, EltsWildcard),
                 ScenarioPkt(MacL1, 10, -48, 1, EltsRates2)>>)

\* 400 s and 20 dBm apart, two channels, no SSID, two rate hashes
Scenario3 ==
    ScoreAfter(<<ScenarioPkt(MacG1, 0, -50, 1, EltsWildcard),
                 ScenarioPkt(MacL1, 400, -30, 6, EltsRates2)>>)

OrderPkts ==
    [probe : {TRUE}, addr2 : {Some(MacG1), Some(MacG2lower)},
     time : {0}, dBm_AntSignal : {NoAttr}, Channel : {NoAttr},
     elts : {EltsAb, EltsRates2}]
    \cup
    [probe : {TRUE}, addr2 : {Some(MacL1)},
     time : {0, 300}, dBm_AntSignal : {NoAttr}, Channel : {NoAttr},
     elts : {EltsAb, EltsRates2}]
    \cup
    [probe : {TRUE}, addr2 : {Some(MacG1), Some(MacL1)},
     time : {0}, dBm_AntSignal : {NoAttr}, Channel : {NoAttr},
     elts : {EltsInvalid}]

InitOrder ==
    /\ pc = "ingest"
    /\ nlines = 0
    /\ real_macs = {MacG1, MacG2}
    /\ pkts = <<>>
    /\ fmap = EmptyMap
    /\ assign = EmptyMap
    /\ best = EmptyMap
    /\ HarnessIdle

IngestOrderPkts == Ingest(OrderPkts, MaxOrderPkts)

NextOrder ==
    \/ IngestOrderPkts
    \/ HeuristicAssignment

SpecOrder == InitOrder /\ [][NextOrder]_vars

(***************************************************************************)
(* Claims about the read order                                             *)
(***************************************************************************)
\* the sets of every group
SetsOf(fm) ==
    [fp \in DOMAIN fm |->
        [rate_hashes |-> fm[fp].rate_hashes, ssids |-> fm[fp].ssids,
         reals |-> fm[fp].reals, randoms |-> fm[fp].randoms]]

ScoresOf(b) == [fp \in DOMAIN b |-> b[fp][2]]

RealsOf(a) == [fp \in DOMAIN a |-> a[fp].real]

AssignedOf(a) == [fp \in DOMAIN a |-> a[fp].real # <<>>]

\* how often each value occurs in a list
Occurrences(s) == [v \in set(s) |-> Cardinality({i \in DOMAIN s : s[i] = v})]

\* the lists of every group hold the same samples, in some order
SameSamples(fm1, fm2) ==
    \A fp \in DOMAIN fm1 :
        /\ Occurrences(fm2[fp].times) = Occurrences(fm1[fp].times)
        /\ Occurrences(fm2[fp].powers) = Occurrences(fm1[fp].powers)
        /\ Occurrences(fm2[fp].channels) = Occurrences(fm1[fp].channels)

BestAfter(pairs, data, k) == BestOver(SubSeq(pairs, 1, k), data, <<None, 0>>)

\* C12: the tie-break. For a group with a (randomized, persistent) pair and
\* every order in which the two loops may visit its sets, the first pair sets
\* best to its persistent address and the group's score, no later pair (all
\* score the same) replaces it, and so the address retained is that of the
\* first pair; a group without a pair keeps (None, 0). After the assignment
\* best holds, for each group, such a first address and the score.
C12_TieBreak ==
    /\ \A o \in IterationOrders(fmap) : \A fp \in DOMAIN fmap :
          LET pairs == PairsOf(o[fp][1], o[fp][2])
              first == <<Some(pairs[1][2]), Score(fmap[fp])>>
          IN  IF pairs = <<>>
              THEN BestOver(pairs, fmap[fp], <<None, 0>>) = <<None, 0>>
              ELSE /\ \A k \in DOMAIN pairs : BestAfter(pairs, fmap[fp], k) = first
                   /\ BestOver(pairs, fmap[fp], first) = first
    /\ pc = "done" =>
          \A fp \in DOMAIN fmap :
              IF HasPair(fmap[fp])
              THEN /\ best[fp][1] \in {Some(r) : r \in fmap[fp].reals}
                   /\ best[fp][2] = Score(fmap[fp])
              ELSE best[fp] = <<None, 0>>

\* the assignment has run on a group with two persistent addresses and a
\* randomized one: two pairs with the same score, one address retained
C12_Witness ==
    /\ pc = "done"
    /\ \E fp \in DOMAIN fmap :
          /\ Cardinality(fmap[fp].reals) = 2
          /\ Cardinality(fmap[fp].randoms) = 1
          /\ best[fp][1] # None
          /\ best[fp][1][1] \in fmap[fp].reals
          /\ best[fp][2] = Score(fmap[fp])

=============================================================================
